---- MODULE Spec2Model ----
(***************************************************************************)
(* Distance-consistency audit (Resources/Distances/TestManual.py, and its  *)
(* near-duplicate Test.py, which lacks the large-discrepancy list).        *)
(*                                                                         *)
(* Representation.                                                         *)
(*  - A string is a sequence of characters; a character is a one-token     *)
(*    TLA+ string.  Non-ASCII characters are named: "a_breve" is U+0103,   *)
(*    "l_stroke" is U+0142, "combining_breve" is U+0306.  The suffix       *)
(*    ".json" is one token.                                                *)
(*  - The file system is the function files: existing file name ->         *)
(*    content.  It is read-only during a run.                              *)
(*  - A distance is an integer number of units of 0.005 km, so that 0.01   *)
(*    km is 2 units and 19.0 km is 3800 units.  Distances are taken to be  *)
(*    multiples of 0.005 km and the subtraction to be exact (binary        *)
(*    floating-point rounding of the subtraction is not modelled).         *)
(*  - A JSON value that is not of the expected shape is modelled by its    *)
(*    kind: an unparsable document ("badjson"), a document whose top level *)
(*    is not an object ("nondict"), a missing key (hasName, hasOrigin,     *)
(*    hasDests, kmKind = "missing") and a distance that is not a number    *)
(*    (kmKind = "bad").                                                    *)
(***************************************************************************)
EXTENDS Integers, Sequences, FiniteSets, TLC

VARIABLES
    files,                          \* the directory: file name -> content
    pc,                             \* position of the run
    main_origin,                    \* main_data.get("origin")
    destinations,                   \* main_data.get("destinations", [])
    idx,                            \* position of the for loop in destinations
    checked_count,
    mismatches,
    errors,
    large_discrepancy_destinations,
    destination_name,               \* argument of the last normalize call
    destination_filename,           \* result of the last normalize call
    output,                         \* the sections printed so far
    exit_code                       \* process exit status (-1 while running)

vars == <<files, pc, main_origin, destinations, idx, checked_count, mismatches,
          errors, large_discrepancy_destinations, destination_name,
          destination_filename, output, exit_code>>

----------------------------------------------------------------------------
(* Bounds of the model. *)

MaxEntries == 2

MaxDestEntries == 2

MaxNameLen == 3

(* Program constants, in units of 0.005 km. *)

NOISE_FLOOR == 2

DISCREPANCY_THRESHOLD_KM == 3800

PRIMARY_FILE_TO_CHECK == <<"A", ".json">>

----------------------------------------------------------------------------
(* Strings. *)

SeqUpTo(n, S) == UNION {[1..k -> S] : k \in 0..n}

RECURSIVE Flatten(_)
Flatten(ss) == IF ss = <<>> THEN <<>> ELSE Head(ss) \o Flatten(Tail(ss))

\* The characters of the model
Chars == {"A", "B", "C", "a", "b", "c", " ", "(", ")", "-",
          "a_breve", "l_stroke", "combining_breve"}

\* The str s with each character c replaced by the str f[c]
MapChars(s, f) == Flatten([k \in 1..Len(s) |-> f[s[k]]])

\* unicodedata.normalize('NFKD', c) for one character
NFKD ==
    [c \in Chars |-> IF c = "a_breve" THEN <<"a", "combining_breve">> ELSE <<c>>]

\* .encode('ASCII', 'ignore'): a character outside ASCII is dropped
EncodeAsciiIgnore ==
    [c \in Chars |-> IF c \in {"a_breve", "l_stroke", "combining_breve"} THEN <<>> ELSE <<c>>]

\* .replace(" ", "-")
ReplaceSpace == [c \in Chars |-> IF c = " " THEN <<"-">> ELSE <<c>>]

\* .replace("(", "").replace(")", "")
RemoveParens == [c \in Chars |-> IF c \in {"(", ")"} THEN <<>> ELSE <<c>>]

\* str.lower() on the characters of the model
Lower ==
    [c \in Chars |-> CASE c = "A" -> <<"a">>
                      [] c = "B" -> <<"b">>
                      [] c = "C" -> <<"c">>
                      [] OTHER   -> <<c>>]

\* f"{stem}.json"
Json(stem) == stem \o <<".json">>

\* potential_filenames, in the order the code tries them
PotentialFilenames(location_name) ==
    LET normalized == MapChars(MapChars(location_name, NFKD), EncodeAsciiIgnore)
        sanitized  == MapChars(MapChars(normalized, ReplaceSpace), RemoveParens)
    IN  << Json(sanitized),
           Json(MapChars(sanitized, Lower)),
           Json(MapChars(location_name, ReplaceSpace)) >>

\* The candidates tried last to first.
RECURSIVE LastExisting(_, _, _)
LastExisting(candidates, existing, fallback) ==
    IF candidates = <<>> THEN fallback
    ELSE IF candidates[Len(candidates)] \in existing THEN candidates[Len(candidates)]
    ELSE LastExisting(SubSeq(candidates, 1, Len(candidates) - 1), existing, fallback)

\* Lines 28-33: the first candidate that exists, else the fallback
RECURSIVE FirstExisting(_, _, _)
FirstExisting(candidates, existing, fallback) ==
    IF candidates = <<>> THEN fallback
    ELSE IF Head(candidates) \in existing THEN Head(candidates)
    ELSE FirstExisting(Tail(candidates), existing, fallback)

\* normalize_name_to_filename; existing is the set of names os.path.exists accepts
normalize_name_to_filename(location_name, existing) ==
    FirstExisting(PotentialFilenames(location_name), existing,
                  Json(MapChars(location_name, ReplaceSpace)))

----------------------------------------------------------------------------
(* Records. *)

Entry(hasName, name, kmKind, km) ==
    [hasName |-> hasName, name |-> name, kmKind |-> kmKind, km |-> km]

Content(kind, hasOrigin, origin, hasDests, dests) ==
    [kind |-> kind, hasOrigin |-> hasOrigin, origin |-> origin,
     hasDests |-> hasDests, dests |-> dests]

Sentinel(kind) == Content(kind, FALSE, <<>>, FALSE, <<>>)

\* The entries a primary record may hold: well-formed ones, one without a
\* "name" key, one without a "distance_km" key, one whose distance is not a number.
PrimaryEntryPool ==
    {Entry(TRUE, n, "num", k) : n \in {<<"B">>, <<"b">>}, k \in {2000, 2001}}
    \cup {Entry(TRUE, <<"C">>, "num", 2000), Entry(FALSE, <<>>, "num", 2000),
          Entry(TRUE, <<"B">>, "missing", 0), Entry(TRUE, <<"B">>, "bad", 0)}

\* The entries a destination record may hold: well-formed ones naming "A" or
\* "a", one without a "name" key, one without a "distance_km" key, one whose
\* distance is not a number.
DestEntryPool ==
    {Entry(TRUE, <<"A">>, "num", k) : k \in {2003, 5801}}
    \cup {Entry(TRUE, <<"a">>, "num", 2003), Entry(FALSE, <<>>, "num", 2003),
          Entry(TRUE, <<"A">>, "missing", 0), Entry(TRUE, <<"A">>, "bad", 0)}

\* What the primary file may hold ("absent": there is no such file).
PrimaryContents ==
    {Sentinel("absent"), Sentinel("badjson"), Sentinel("nondict")}
    \cup {Content("dict", FALSE, <<>>, TRUE, <<Entry(TRUE, <<"B">>, "num", 2000)>>),
          Content("dict", TRUE, <<>>, TRUE, <<Entry(TRUE, <<"B">>, "num", 2000)>>),
          Content("dict", TRUE, <<"A">>, FALSE, <<>>)}
    \cup {Content("dict", TRUE, <<"A">>, TRUE, d) : d \in SeqUpTo(MaxEntries, PrimaryEntryPool)}

\* What the destination file b.json may hold.
DestContents ==
    {Sentinel("absent"), Sentinel("badjson"), Sentinel("nondict"),
     Content("dict", TRUE, <<"B">>, FALSE, <<>>)}
    \cup {Content("dict", TRUE, <<"B">>, TRUE, d) : d \in SeqUpTo(MaxDestEntries, DestEntryPool)}

DestFile == <<"b", ".json">>

Directory(p, d) ==
    LET present == (IF p.kind = "absent" THEN {} ELSE {PRIMARY_FILE_TO_CHECK})
                   \cup (IF d.kind = "absent" THEN {} ELSE {DestFile})
    IN  [f \in present |-> IF f = PRIMARY_FILE_TO_CHECK THEN p ELSE d]

----------------------------------------------------------------------------
(* check_distances *)

Init ==
    /\ \E p \in PrimaryContents, d \in DestContents : files = Directory(p, d)
    /\ pc = "start"
    /\ main_origin = <<>>
    /\ destinations = <<>>
    /\ idx = 1
    /\ checked_count = 0
    /\ mismatches = <<>>
    /\ errors = <<>>
    /\ large_discrepancy_destinations = <<>>
    /\ destination_name = <<>>
    /\ destination_filename = <<>>
    /\ output = <<>>
    /\ exit_code = -1

\* Lines 47-66: load the primary file.
LoadPrimary ==
    /\ pc = "start"
    /\ UNCHANGED <<files, idx, checked_count, mismatches, errors,
                   large_discrepancy_destinations, destination_name,
                   destination_filename>>
    /\ IF PRIMARY_FILE_TO_CHECK \notin DOMAIN files
       THEN \* FileNotFoundError: message, return
            /\ pc' = "fatal"
            /\ output' = Append(output, "FATAL not found")
            /\ exit_code' = 0
            /\ UNCHANGED <<main_origin, destinations>>
       ELSE LET main_data == files[PRIMARY_FILE_TO_CHECK] IN
            CASE main_data.kind = "badjson" ->
                    \* json.JSONDecodeError: message, return
                    /\ pc' = "fatal"
                    /\ output' = Append(output, "FATAL parse")
                    /\ exit_code' = 0
                    /\ UNCHANGED <<main_origin, destinations>>
              [] main_data.kind = "nondict" ->
                    \* main_data.get raises AttributeError, which nothing catches
                    /\ pc' = "crashed"
                    /\ output' = output \o <<"Traceback", "AttributeError">>
                    /\ exit_code' = 1
                    /\ UNCHANGED <<main_origin, destinations>>
              [] OTHER ->
                    /\ main_origin' = (IF main_data.hasOrigin THEN main_data.origin ELSE <<>>)
                    /\ destinations' = (IF main_data.hasDests THEN main_data.dests ELSE <<>>)
                    /\ IF main_origin' = <<>> \/ destinations' = <<>>
                       THEN \* not main_origin or not destinations: message, return
                            /\ pc' = "fatal"
                            /\ output' = Append(output, "FATAL missing key")
                            /\ exit_code' = 0
                       ELSE /\ pc' = "loop"
                            /\ output' = Append(output, "Starting")
                            /\ UNCHANGED exit_code

Abs(x) == IF x < 0 THEN -x ELSE x

\* The scan with the names compared without regard to case.
RECURSIVE ScanReciprocalIgnoreCase(_, _)
ScanReciprocalIgnoreCase(dests, origin) ==
    IF dests = <<>> THEN [tag |-> "notfound", kmKind |-> "missing", km |-> 0]
    ELSE LET reciprocal_entry == Head(dests) IN
         IF ~reciprocal_entry.hasName
         THEN [tag |-> "KeyError", kmKind |-> "missing", km |-> 0]
         ELSE IF MapChars(reciprocal_entry.name, Lower) = MapChars(origin, Lower)
         THEN IF reciprocal_entry.kmKind = "missing"
              THEN [tag |-> "KeyError", kmKind |-> "missing", km |-> 0]
              ELSE [tag |-> "found", kmKind |-> reciprocal_entry.kmKind,
                    km |-> reciprocal_entry.km]
         ELSE ScanReciprocalIgnoreCase(Tail(dests), origin)

\* The scan without the break: the last matching entry wins.
RECURSIVE ScanReciprocalNoBreak(_, _)
ScanReciprocalNoBreak(dests, origin) ==
    IF dests = <<>> THEN [tag |-> "notfound", kmKind |-> "missing", km |-> 0]
    ELSE LET reciprocal_entry == Head(dests)
             rest == ScanReciprocalNoBreak(Tail(dests), origin)
         IN
         IF ~reciprocal_entry.hasName
         THEN [tag |-> "KeyError", kmKind |-> "missing", km |-> 0]
         ELSE IF reciprocal_entry.name = origin
         THEN IF reciprocal_entry.kmKind = "missing"
              THEN [tag |-> "KeyError", kmKind |-> "missing", km |-> 0]
              ELSE IF rest.tag = "notfound"
              THEN [tag |-> "found", kmKind |-> reciprocal_entry.kmKind,
                    km |-> reciprocal_entry.km]
              ELSE rest
         ELSE rest

\* Lines 78-84: the first entry of the destination record whose name is
\* main_origin.  Reading "name" or "distance_km" of an entry that lacks the key
\* raises KeyError; entries after the first match are never read.
RECURSIVE ScanReciprocal(_, _)
ScanReciprocal(dests, origin) ==
    IF dests = <<>> THEN [tag |-> "notfound", kmKind |-> "missing", km |-> 0]
    ELSE LET reciprocal_entry == Head(dests) IN
         IF ~reciprocal_entry.hasName
         THEN [tag |-> "KeyError", kmKind |-> "missing", km |-> 0]
         ELSE IF reciprocal_entry.name = origin
         THEN IF reciprocal_entry.kmKind = "missing"
              THEN [tag |-> "KeyError", kmKind |-> "missing", km |-> 0]
              ELSE [tag |-> "found", kmKind |-> reciprocal_entry.kmKind,
                    km |-> reciprocal_entry.km]
         ELSE ScanReciprocal(Tail(dests), origin)

IsMismatchInclusive(discrepancy) == discrepancy >= NOISE_FLOOR

\* Line 91: the pair is a mismatch
IsMismatch(discrepancy) == discrepancy > NOISE_FLOOR

IsLargeInclusive(discrepancy) == discrepancy >= DISCREPANCY_THRESHOLD_KM

\* Line 103: the mismatch goes to the large-discrepancy list
IsLarge(discrepancy) == discrepancy > DISCREPANCY_THRESHOLD_KM

Outcome(tag, file, backward, discrepancy) ==
    [tag |-> tag, file |-> file, backward |-> backward, discrepancy |-> discrepancy]

\* Lines 70-111: what one iteration of the loop does with dest_entry, for the
\* origin and the directory given.  The tags "KeyError", "AttributeError" and
\* "TypeError" are exceptions that leave check_distances uncaught.
CheckEntry(origin, dest_entry, dir) ==
    IF ~dest_entry.hasName \/ dest_entry.kmKind = "missing"
    THEN Outcome("KeyError", <<>>, 0, 0)                     \* lines 70-71, outside try
    ELSE LET filename == normalize_name_to_filename(dest_entry.name, DOMAIN dir) IN
         IF filename \notin DOMAIN dir
         THEN Outcome("FileNotFound", filename, 0, 0)         \* line 108
         ELSE LET dest_data == dir[filename] IN
              CASE dest_data.kind = "badjson" ->
                      Outcome("FileError", filename, 0, 0)    \* line 110, JSONDecodeError
                [] dest_data.kind = "nondict" ->
                      Outcome("AttributeError", filename, 0, 0)  \* line 80, dest_data.get
                [] OTHER ->
                      LET found == ScanReciprocal(
                                       IF dest_data.hasDests THEN dest_data.dests ELSE <<>>,
                                       origin)
                      IN  CASE found.tag = "KeyError" ->
                                  Outcome("FileError", filename, 0, 0)   \* line 110, KeyError
                            [] found.tag = "notfound" ->
                                  Outcome("MissingReturn", filename, 0, 0)  \* lines 86-88
                            [] dest_entry.kmKind = "bad" \/ found.kmKind = "bad" ->
                                  Outcome("TypeError", filename, 0, 0)   \* line 90
                            [] OTHER ->
                                  LET discrepancy == Abs(dest_entry.km - found.km) IN
                                  Outcome(IF IsMismatch(discrepancy) THEN "mismatch"
                                          ELSE "consistent",
                                          filename, found.km, discrepancy)

\* An element of errors.  The message of [Missing Return] names main_origin and
\* the file, that of [File Not Found] the file and the destination, that of
\* [File Error] the file; destination records which entry the error is about.
ErrorRow(tag, file, destination) ==
    [tag |-> tag, file |-> file, origin |-> main_origin, destination |-> destination]

\* Lines 69-111: one iteration of the for loop.
ProcessEntry ==
    /\ pc = "loop"
    /\ idx <= Len(destinations)
    /\ LET dest_entry == destinations[idx]
           r == CheckEntry(main_origin, dest_entry, files)
       IN  /\ destination_name' = (IF dest_entry.hasName THEN dest_entry.name
                                   ELSE destination_name)
           /\ destination_filename' = (IF r.tag = "KeyError" THEN destination_filename
                                       ELSE r.file)
           /\ CASE r.tag \in {"KeyError", "AttributeError", "TypeError"} ->
                      \* the exception propagates out of check_distances
                      /\ pc' = "crashed"
                      /\ exit_code' = 1
                      /\ output' = output \o <<"Traceback", r.tag>>
                      /\ UNCHANGED <<idx, checked_count, mismatches, errors,
                                     large_discrepancy_destinations>>
                [] r.tag \in {"FileNotFound", "FileError", "MissingReturn"} ->
                      /\ errors' = Append(errors, ErrorRow(r.tag, r.file, dest_entry.name))
                      /\ idx' = idx + 1
                      /\ UNCHANGED <<pc, exit_code, output, checked_count, mismatches,
                                     large_discrepancy_destinations>>
                [] r.tag = "mismatch" ->
                      /\ mismatches' = Append(mismatches,
                             [origin |-> main_origin, destination |-> dest_entry.name,
                              forward_km |-> dest_entry.km, backward_km |-> r.backward,
                              discrepancy |-> r.discrepancy])
                      /\ large_discrepancy_destinations' =
                             (IF IsLarge(r.discrepancy)
                              THEN Append(large_discrepancy_destinations, dest_entry.name)
                              ELSE large_discrepancy_destinations)
                      /\ idx' = idx + 1
                      /\ UNCHANGED <<pc, exit_code, output, checked_count, errors>>
                [] OTHER ->
                      /\ checked_count' = checked_count + 1
                      /\ idx' = idx + 1
                      /\ UNCHANGED <<pc, exit_code, output, mismatches, errors,
                                     large_discrepancy_destinations>>
    /\ UNCHANGED <<files, main_origin, destinations>>

----------------------------------------------------------------------------
(* Reporting *)

\* Code points, for the order of str
Ord(c) ==
    CASE c = " " -> 32 [] c = "(" -> 40 [] c = ")" -> 41 [] c = "-" -> 45
      [] c = "A" -> 65 [] c = "B" -> 66 [] c = "C" -> 67
      [] c = "a" -> 97 [] c = "b" -> 98 [] c = "c" -> 99
      [] c = "a_breve" -> 259 [] c = "l_stroke" -> 322
      [] c = "combining_breve" -> 774 [] OTHER -> 1000

\* s < t for two str
RECURSIVE StrLess(_, _)
StrLess(s, t) ==
    IF t = <<>> THEN FALSE
    ELSE IF s = <<>> THEN TRUE
    ELSE IF Ord(Head(s)) # Ord(Head(t)) THEN Ord(Head(s)) < Ord(Head(t))
    ELSE StrLess(Tail(s), Tail(t))

\* Insert x into the sequence s, sorted by discrepancy descending, after every
\* element whose discrepancy is not smaller: the step of a stable sort.
RECURSIVE InsertByDiscrepancy(_, _)
InsertByDiscrepancy(x, s) ==
    IF s = <<>> THEN <<x>>
    ELSE IF x.discrepancy > Head(s).discrepancy THEN <<x>> \o s
    ELSE <<Head(s)>> \o InsertByDiscrepancy(x, Tail(s))

\* Sorted ascending and then reversed: equal discrepancies end in reverse order.
RECURSIVE SortMismatchesTiesReversed(_)
SortMismatchesTiesReversed(s) ==
    IF s = <<>> THEN <<>>
    ELSE InsertByDiscrepancy(Head(s), SortMismatchesTiesReversed(Tail(s)))

\* Sorted, each mismatch kept once.
RECURSIVE SortMismatchesDedup(_)
SortMismatchesDedup(s) ==
    IF s = <<>> THEN <<>>
    ELSE LET rest == SortMismatchesDedup(SubSeq(s, 1, Len(s) - 1)) IN
         IF \E k \in 1..Len(rest) : rest[k] = s[Len(s)] THEN rest
         ELSE InsertByDiscrepancy(s[Len(s)], rest)

\* Line 120: mismatches.sort(key=lambda x: x['discrepancy'], reverse=True).
\* list.sort is stable, and with reverse=True equal keys keep their order too.
RECURSIVE SortMismatches(_)
SortMismatches(s) ==
    IF s = <<>> THEN <<>>
    ELSE InsertByDiscrepancy(s[Len(s)], SortMismatches(SubSeq(s, 1, Len(s) - 1)))

RECURSIVE InsertByName(_, _)
InsertByName(x, s) ==
    IF s = <<>> THEN <<x>>
    ELSE IF StrLess(x, Head(s)) THEN <<x>> \o s
    ELSE <<Head(s)>> \o InsertByName(x, Tail(s))

\* Line 136: large_discrepancy_destinations.sort()
RECURSIVE SortNames(_)
SortNames(s) ==
    IF s = <<>> THEN <<>>
    ELSE InsertByName(s[Len(s)], SortNames(SubSeq(s, 1, Len(s) - 1)))

\* Lines 113-148: the report, after the loop has run off the end of destinations.
Report ==
    /\ pc = "loop"
    /\ idx > Len(destinations)
    /\ mismatches' = SortMismatches(mismatches)
    /\ large_discrepancy_destinations' = SortNames(large_discrepancy_destinations)
    /\ output' = output \o <<"Check Complete">>
                 \o (IF mismatches # <<>> THEN <<"Mismatches">> ELSE <<>>)
                 \o (IF errors # <<>> THEN <<"Errors">> ELSE <<>>)
                 \o (IF large_discrepancy_destinations # <<>> THEN <<"Large Discrepancies">>
                     ELSE IF mismatches # <<>> THEN <<"Large Discrepancies: none">>
                     ELSE <<>>)
                 \o <<"Summary">>
    /\ pc' = "done"
    /\ exit_code' = 0
    /\ UNCHANGED <<files, main_origin, destinations, idx, checked_count, errors,
                   destination_name, destination_filename>>

Next == LoadPrimary \/ ProcessEntry \/ Report

Spec == Init /\ [][Next]_vars

----------------------------------------------------------------------------
(* normalize_name_to_filename on its own: any name of at most MaxNameLen   *)
(* characters, any set of existing files among the names it may try.      *)

NameAlphabet == {"B", "b", "a_breve", "l_stroke", " ", "(", ")"}

InitNorm ==
    /\ destination_name \in SeqUpTo(MaxNameLen, NameAlphabet)
    /\ \E existing \in SUBSET {PotentialFilenames(destination_name)[k] : k \in 1..3} :
           files = [f \in existing |-> Sentinel("dict")]
    /\ pc = "call"
    /\ main_origin = <<>>
    /\ destinations = <<>>
    /\ idx = 1
    /\ checked_count = 0
    /\ mismatches = <<>>
    /\ errors = <<>>
    /\ large_discrepancy_destinations = <<>>
    /\ destination_filename = <<>>
    /\ output = <<>>
    /\ exit_code = -1

\* Line 72: destination_filename = normalize_name_to_filename(destination_name)
Normalize ==
    /\ pc = "call"
    /\ destination_filename' = normalize_name_to_filename(destination_name, DOMAIN files)
    /\ pc' = "returned"
    /\ UNCHANGED <<files, main_origin, destinations, idx, checked_count, mismatches,
                   errors, large_discrepancy_destinations, destination_name, output,
                   exit_code>>

NextNorm == Normalize

SpecNorm == InitNorm /\ [][NextNorm]_vars

----------------------------------------------------------------------------
(* Properties of check_distances.                                          *)

Range(s) == {s[k] : k \in 1..Len(s)}

\* The entries of the primary record the loop has finished with
Processed == 1..(idx - 1)

\* What the loop does with entry k of the primary record
OutcomeOf(k) == CheckEntry(main_origin, destinations[k], files)

\* The processed entries whose destination record resolves and holds a
\* reciprocal entry, both distances being numbers
Compared == {k \in Processed : OutcomeOf(k).tag \in {"mismatch", "consistent"}}

\* |forward_km - backward_km| of a compared entry
DiscrepancyOf(k) == Abs(destinations[k].km - OutcomeOf(k).backward)

\* C1: every element of the mismatch list has a discrepancy above 0.01 km (2
\* units), and a compared entry is in the mismatch list exactly when its
\* discrepancy is above 0.01 km; otherwise it adds one to checked_count.
C1_NoiseFloor ==
    /\ \A m \in Range(mismatches) :
           /\ m.discrepancy = Abs(m.forward_km - m.backward_km)
           /\ m.discrepancy > NOISE_FLOOR
    /\ Len(mismatches) = Cardinality({k \in Compared : DiscrepancyOf(k) > NOISE_FLOOR})
    /\ checked_count = Cardinality({k \in Compared : DiscrepancyOf(k) <= NOISE_FLOOR})

\* A run that met a discrepancy of exactly 0.01 km, counted consistent, and a
\* discrepancy of 0.015 km, listed as a mismatch.
C1_Witness ==
    /\ pc = "done"
    /\ \E k \in Compared : DiscrepancyOf(k) = NOISE_FLOOR
    /\ \E m \in Range(mismatches) : m.discrepancy = NOISE_FLOOR + 1
    /\ checked_count >= 1

\* C2: a destination name is in the large-discrepancy list exactly when one of
\* its compared entries has a discrepancy strictly above the threshold; the
\* list has one element for each such entry.
C2_LargeStrictlyAbove ==
    LET Large == {k \in Compared : DiscrepancyOf(k) > DISCREPANCY_THRESHOLD_KM} IN
    /\ Range(large_discrepancy_destinations) = {destinations[k].name : k \in Large}
    /\ Len(large_discrepancy_destinations) = Cardinality(Large)

\* A run with a mismatch of exactly the threshold, which is not listed, and one
\* just above it, which is.
C2_Witness ==
    /\ pc = "done"
    /\ \E m \in Range(mismatches) :
           /\ m.discrepancy = DISCREPANCY_THRESHOLD_KM
           /\ m.destination \notin Range(large_discrepancy_destinations)
    /\ \E m \in Range(mismatches) :
           /\ m.discrepancy = DISCREPANCY_THRESHOLD_KM + 1
           /\ m.destination \in Range(large_discrepancy_destinations)

\* The record the name n resolves to exists, is an object with a destinations
\* list, and none of its entries is named main_origin (each having a name).
ResolvesWithoutReturn(n) ==
    LET filename == normalize_name_to_filename(n, DOMAIN files) IN
    /\ filename \in DOMAIN files
    /\ files[filename].kind = "dict"
    /\ files[filename].hasDests
    /\ \A e \in Range(files[filename].dests) : e.hasName /\ e.name # main_origin

MissingReturnRows(n) ==
    {k \in 1..Len(errors) : errors[k].tag = "MissingReturn" /\ errors[k].destination = n
                            /\ errors[k].origin = main_origin}

\* C3, as stated: a completed run reports exactly one Missing Return error for
\* a pair (A, B) whose record B resolves without an entry naming A, and no
\* mismatch for it.
C3_ExactlyOneMissingReturn ==
    pc = "done" =>
        \A k \in 1..Len(destinations) :
            ResolvesWithoutReturn(destinations[k].name) =>
                /\ Cardinality(MissingReturnRows(destinations[k].name)) = 1
                /\ \A m \in Range(mismatches) : m.destination # destinations[k].name

\* C3, amended: one Missing Return error for each processed entry of the
\* primary record that names B, and no mismatch for the pair.
C3_OneMissingReturnPerEntry ==
    \A k \in Processed :
        (destinations[k].hasName /\ ResolvesWithoutReturn(destinations[k].name)) =>
            /\ Cardinality(MissingReturnRows(destinations[k].name))
                   = Cardinality({j \in Processed : destinations[j].hasName
                                      /\ destinations[j].name = destinations[k].name})
            /\ \A m \in Range(mismatches) : m.destination # destinations[k].name

\* A completed run in which the destination record spells the origin "a", not
\* "A", and the primary record names the destination twice.
C3_Witness ==
    /\ pc = "done"
    /\ Len(destinations) = 2
    /\ destinations[1].name = destinations[2].name
    /\ ResolvesWithoutReturn(destinations[1].name)
    /\ files[destination_filename].dests # <<>>
    /\ Len(errors) = 2

\* The primary record is well formed: every entry has a name and a number
WellFormedPrimary ==
    \A e \in Range(destinations) : e.hasName /\ e.kmKind = "num"

\* C4, as stated: once the primary record has loaded, no failure of a
\* destination record aborts the run; what ends the loop early can only be the
\* primary record's own entry.
C4_NoDestinationFailureAborts ==
    (pc = "crashed" /\ main_origin # <<>>) => ~WellFormedPrimary

\* The primary record failed to load or parse, or lacks origin or destinations
\* (an empty value counted as lacking).
PrimaryLoadFailed ==
    \/ PRIMARY_FILE_TO_CHECK \notin DOMAIN files
    \/ files[PRIMARY_FILE_TO_CHECK].kind \in {"badjson", "nondict"}
    \/ ~files[PRIMARY_FILE_TO_CHECK].hasOrigin
    \/ files[PRIMARY_FILE_TO_CHECK].origin = <<>>
    \/ ~files[PRIMARY_FILE_TO_CHECK].hasDests
    \/ files[PRIMARY_FILE_TO_CHECK].dests = <<>>

\* C5, as stated: the run ends without a report only when the primary record
\* failed to load, and then nothing was processed and nothing but the fatal
\* message was printed.
C5_OnlyPrimaryLoadAborts ==
    /\ pc \in {"fatal", "crashed"} => PrimaryLoadFailed
    /\ pc = "fatal" => /\ idx = 1 /\ mismatches = <<>> /\ errors = <<>>
                       /\ Len(output) = 1

\* C6, as stated: exit status 0 when the run completes, nonzero when it ends
\* on a fatal load or parse failure of the primary record.
C6_ExitCode ==
    /\ pc = "done" => exit_code = 0
    /\ pc = "fatal" => exit_code # 0

\* The mismatch the loop records for a compared entry k
MismatchOf(k) ==
    [origin |-> main_origin, destination |-> destinations[k].name,
     forward_km |-> destinations[k].km, backward_km |-> OutcomeOf(k).backward,
     discrepancy |-> DiscrepancyOf(k)]

\* The mismatches of entries 1..k, in the order of the primary record
RECURSIVE EncounterOrder(_)
EncounterOrder(k) ==
    IF k = 0 THEN <<>>
    ELSE EncounterOrder(k - 1)
         \o (IF OutcomeOf(k).tag = "mismatch" THEN <<MismatchOf(k)>> ELSE <<>>)

DescendingDiscrepancy(s) ==
    \A i, j \in 1..Len(s) : i < j => s[i].discrepancy >= s[j].discrepancy

\* C7, as stated: the reported mismatch list is ordered by discrepancy
\* descending, equal discrepancies by destination name ascending.
C7_TiesByNameAscending ==
    pc = "done" =>
        /\ DescendingDiscrepancy(mismatches)
        /\ \A i, j \in 1..Len(mismatches) :
               (i < j /\ mismatches[i].discrepancy = mismatches[j].discrepancy) =>
                   ~StrLess(mismatches[j].destination, mismatches[i].destination)

\* C7, amended: the reported mismatch list is ordered by discrepancy
\* descending, and the mismatches of one discrepancy are in the order of their
\* entries in the primary record.
C7_TiesInRecordOrder ==
    pc = "done" =>
        /\ DescendingDiscrepancy(mismatches)
        /\ \A d \in {m.discrepancy : m \in Range(mismatches) \cup Range(EncounterOrder(idx - 1))} :
               LET HasDiscrepancy(m) == m.discrepancy = d IN
               SelectSeq(mismatches, HasDiscrepancy)
                   = SelectSeq(EncounterOrder(idx - 1), HasDiscrepancy)

\* A report of two mismatches of one discrepancy whose names the primary
\* record holds in descending order.
C7_Witness ==
    /\ pc = "done"
    /\ Len(mismatches) = 2
    /\ mismatches[1].discrepancy = mismatches[2].discrepancy
    /\ StrLess(mismatches[2].destination, mismatches[1].destination)

\* Entry i of the record in file fa is compared with the record in file fb
ComparedWith(fa, i, fb) ==
    LET o == CheckEntry(files[fa].origin, files[fa].dests[i], files) IN
    o.tag \in {"mismatch", "consistent"} /\ o.file = fb

\* The discrepancy check_distances computes for entry i of the record in fa,
\* that record being the primary one
PerspectiveDiscrepancy(fa, i) ==
    CheckEntry(files[fa].origin, files[fa].dests[i], files).discrepancy

\* The files that can be the primary record of a run that reaches the loop
Subjects ==
    {f \in DOMAIN files : /\ files[f].kind = "dict"
                          /\ files[f].hasOrigin /\ files[f].origin # <<>>
                          /\ files[f].hasDests /\ files[f].dests # <<>>}

\* The first entry of the record in fa whose name is the origin of the record in fb
IsFirstNaming(fa, i, fb) ==
    /\ files[fa].dests[i].hasName
    /\ files[fa].dests[i].name = files[fb].origin
    /\ \A k \in 1..(i - 1) : files[fa].dests[k].name # files[fb].origin

\* C8, as stated: in a completed run, whenever an entry of A is compared with
\* B's record and an entry of B with A's record, the two discrepancies are equal.
C8_SymmetricDiscrepancy ==
    pc = "done" =>
        \A fa, fb \in Subjects :
            \A i \in 1..Len(files[fa].dests), j \in 1..Len(files[fb].dests) :
                (ComparedWith(fa, i, fb) /\ ComparedWith(fb, j, fa)) =>
                    PerspectiveDiscrepancy(fa, i) = PerspectiveDiscrepancy(fb, j)

\* C8, amended: the discrepancy computed for A's first entry naming B equals
\* the one computed for B's first entry naming A.
C8_SymmetricForFirstEntries ==
    pc = "done" =>
        \A fa, fb \in Subjects :
            \A i \in 1..Len(files[fa].dests), j \in 1..Len(files[fb].dests) :
                (/\ IsFirstNaming(fa, i, fb) /\ IsFirstNaming(fb, j, fa)
                 /\ ComparedWith(fa, i, fb) /\ ComparedWith(fb, j, fa)) =>
                    PerspectiveDiscrepancy(fa, i) = PerspectiveDiscrepancy(fb, j)

\* A completed run on A whose record names B first, B's record naming A twice
\* with different distances, the pair being a mismatch.
C8_Witness ==
    /\ pc = "done"
    /\ DestFile \in Subjects
    /\ Len(files[DestFile].dests) = 2
    /\ files[DestFile].dests[1].km # files[DestFile].dests[2].km
    /\ ComparedWith(DestFile, 1, PRIMARY_FILE_TO_CHECK)
    /\ ComparedWith(DestFile, 2, PRIMARY_FILE_TO_CHECK)
    /\ ComparedWith(PRIMARY_FILE_TO_CHECK, 1, DestFile)
    /\ IsFirstNaming(PRIMARY_FILE_TO_CHECK, 1, DestFile)
    /\ mismatches # <<>>
    /\ mismatches[1].discrepancy = PerspectiveDiscrepancy(DestFile, 1)

\* A str without its ".json" suffix
Stem(filename) == SubSeq(filename, 1, Len(filename) - 1)

NonAscii == {"a_breve", "l_stroke", "combining_breve"}

C10_OneOutcomePerEntry ==
    /\ [](/\ checked_count + Len(mismatches) + Len(errors) = idx - 1
          /\ pc = "done" =>
                 checked_count + Len(mismatches) + Len(errors) = Len(destinations))
    /\ [][/\ idx' = idx + 1 =>
                 \/ /\ checked_count' = checked_count + 1
                    /\ Len(mismatches') = Len(mismatches)
                    /\ Len(errors') = Len(errors)
                 \/ /\ checked_count' = checked_count
                    /\ Len(mismatches') = Len(mismatches) + 1
                    /\ Len(errors') = Len(errors)
                 \/ /\ checked_count' = checked_count
                    /\ Len(mismatches') = Len(mismatches)
                    /\ Len(errors') = Len(errors) + 1
          /\ idx' = idx =>
                 /\ checked_count' = checked_count
                 /\ Len(mismatches') = Len(mismatches)
                 /\ Len(errors') = Len(errors)]_vars

\* A report after two entries, one a mismatch and one an error.
C10_Witness ==
    /\ pc = "done"
    /\ Len(destinations) = 2
    /\ Len(mismatches) = 1
    /\ Len(errors) = 1
    /\ checked_count = 0

====
